---- MODULE Spec2Model ----
(***************************************************************************)
(* One pass of the Farminfo dashboard script (dashboard-1.py): load the   *)
(* order history, read the sidebar widgets, narrow the data through the   *)
(* four filter steps, then compute the KPIs, the product ranking, the     *)
(* channel performance and the monthly seller inflow/churn.               *)
(*                                                                         *)
(* A DataFrame is a record [columns, rows]: the set of its column names   *)
(* and the sequence of its rows.  Column names are written in English:    *)
(*   order_date = 주문일, channel = 주문경로, product = 상품명,           *)
(*   quantity = 주문수량, amount = 실결제 금액, event_flag = 이벤트 여부, *)
(*   unit_sale_price = 판매단가, unit_supply_price = 공급단가,            *)
(*   margin = 마진, seller_name = 셀러명, month = 월,                     *)
(*   new_inflow = 신규 유입, churn = 이탈.                                *)
(* A text cell is a sequence of one-character strings; a timestamp is a   *)
(* record [month, day, hour] of one calendar year.                        *)
(***************************************************************************)
EXTENDS Integers, Sequences, FiniteSets, TLC

VARIABLES
    file,               \* the CSV on disk: [exists, parseable, columns, rows]
    input,              \* the widgets' session state chosen by the operator
    pc,                 \* the section of the script the pass is at
    outcome,            \* "running", "stopped" (st.stop), "raised", "done"
    error,              \* the uncaught exception: [type, key]
    signals,            \* the st.error / st.warning / st.success messages shown
    raw_df,
    date_range, selected_channels, show_event_only, prompt,
    df_filtered,
    kpi,                \* [total_sales, total_orders, avg_order_value, avg_margin]
    prod_rank,
    channel_perf,
    new_sellers, churn_data, analysis_df

vars == <<file, input, pc, outcome, error, signals, raw_df, date_range,
          selected_channels, show_event_only, prompt, df_filtered, kpi,
          prod_rank, channel_perf, new_sellers, churn_data, analysis_df>>

-----------------------------------------------------------------------------
(* Bounds of the enumerated inputs *)

MaxRows == 2            \* rows of a dataset of the filter family
MaxAggRows == 3         \* rows of a dataset of the aggregation family
MaxSellerRows == 5      \* rows of a dataset of the seller family
NumMonths == 3          \* months the seller family spans

-----------------------------------------------------------------------------
(* Cells *)

NaN == <<"NaN">>        \* the missing value pandas puts in an empty cell
NoError == [type |-> "none", key |-> "none"]

\* str.lower() over the letters the enumerated texts use
lower(c) ==
    CASE c = "K" -> "k"
      [] c = "A" -> "a"
      [] c = "B" -> "b"
      [] OTHER -> c

\* Series.astype(str): a missing cell becomes the text "nan"
astype_str(v) == IF v = NaN THEN <<"n", "a", "n">> ELSE v

\* Series.str.contains(pat, case=False) for a pattern without regex
\* metacharacters: pat occurs somewhere in text, compared case-folded
str_contains(text, pat) ==
    \E i \in 1..(Len(text) - Len(pat) + 1) :
        \A j \in 1..Len(pat) : lower(text[i + j - 1]) = lower(pat[j])

\* bool(prompt): a Python string is falsy only when it has no characters
Truthy(s) == Len(s) > 0

-----------------------------------------------------------------------------
(* Timestamps, dates (Series.dt.date) and monthly periods (to_period('M')) *)

TsLE(a, b) ==
    \/ a.month < b.month
    \/ a.month = b.month /\ a.day < b.day
    \/ a.month = b.month /\ a.day = b.day /\ a.hour <= b.hour

\* .dt.date / Timestamp.date(): the time of day is dropped
DateOf(ts) == [month |-> ts.month, day |-> ts.day]

DateLE(a, b) == a.month < b.month \/ (a.month = b.month /\ a.day <= b.day)

\* .dt.to_period('M')
PeriodOf(ts) == ts.month

DigitChars == <<"0", "1", "2", "3", "4", "5", "6", "7", "8", "9">>

\* str(Period): "2024-MM", the month zero-padded to two digits
PeriodStr(p) ==
    <<"2", "0", "2", "4", "-", DigitChars[(p \div 10) + 1], DigitChars[(p % 10) + 1]>>

CharRank(c) == IF c = "-" THEN 0 ELSE CHOOSE i \in 1..10 : DigitChars[i] = c

\* Python's < on two strings of the same length
StrLess(a, b) ==
    \E i \in 1..Len(a) :
        /\ \A j \in 1..(i - 1) : a[j] = b[j]
        /\ CharRank(a[i]) < CharRank(b[i])

-----------------------------------------------------------------------------
(* Sequence helpers *)

Range(s) == {s[i] : i \in 1..Len(s)}

RECURSIVE SumSeq(_)
SumSeq(s) == IF s = <<>> THEN 0 ELSE Head(s) + SumSeq(Tail(s))

RECURSIVE SetToSeq(_)
SetToSeq(S) ==
    IF S = {} THEN <<>>
    ELSE LET x == CHOOSE y \in S : TRUE IN <<x>> \o SetToSeq(S \ {x})

\* sorted(S) for a set of integers
RECURSIVE SortedSeq(_)
SortedSeq(S) ==
    IF S = {} THEN <<>>
    ELSE LET m == CHOOSE y \in S : \A z \in S : y <= z
         IN <<m>> \o SortedSeq(S \ {m})

\* the orderings of the set S
Orderings(S) ==
    {s \in [1..Cardinality(S) -> S] : \A i, j \in 1..Cardinality(S) : s[i] = s[j] => i = j}

Column(df, f) == [i \in 1..Len(df.rows) |-> df.rows[i][f]]

\* DataFrame.empty: no rows or no columns
IsEmpty(df) == df.rows = <<>> \/ df.columns = {}

\* pd.DataFrame()
EmptyFrame == [columns |-> {}, rows |-> <<>>]

-----------------------------------------------------------------------------
(* 2. load_data *)

BaseColumns == {"order_date", "channel", "product", "quantity", "amount"}

\* df['마진'] = (df['판매단가'] - df['공급단가']) * df.get('주문수량', 1)
MarginOf(r) == (r.unit_sale_price - r.unit_supply_price) * r.quantity

HasPriceColumns(columns) ==
    "unit_sale_price" \in columns /\ "unit_supply_price" \in columns

WithMargin(r, columns) ==
    [ts |-> r.ts, channel |-> r.channel, event_flag |-> r.event_flag,
     product |-> r.product, quantity |-> r.quantity,
     unit_sale_price |-> r.unit_sale_price,
     unit_supply_price |-> r.unit_supply_price,
     amount |-> r.amount, seller_name |-> r.seller_name,
     \* without both price columns the frame has no margin column (see
     \* LoadFrame); the field is then a placeholder no step may read
     margin |-> IF HasPriceColumns(columns) THEN MarginOf(r) ELSE 0]

\* the frame load_data returns for a file that was found and parsed
LoadFrame(f) ==
    [columns |-> IF HasPriceColumns(f.columns)
                 THEN f.columns \cup {"margin"} ELSE f.columns,
     rows |-> [i \in 1..Len(f.rows) |-> WithMargin(f.rows[i], f.columns)]]

LoadData ==
    /\ pc = "load" /\ outcome = "running"
    /\ IF ~file.exists
       THEN \* no candidate path exists: st.error and return pd.DataFrame()
            /\ raw_df' = EmptyFrame
            /\ signals' = signals \cup {"file_not_found"}
            /\ pc' = "check"
            /\ UNCHANGED <<outcome, error>>
       ELSE IF ~file.parseable
       THEN \* pd.read_csv raises and nothing catches it
            /\ outcome' = "raised"
            /\ error' = [type |-> "ParserError", key |-> "read_csv"]
            /\ UNCHANGED <<raw_df, signals, pc>>
       ELSE /\ raw_df' = LoadFrame(file)
            /\ pc' = "check"
            /\ UNCHANGED <<outcome, error, signals>>
    /\ UNCHANGED <<file, input, date_range, selected_channels, show_event_only,
                   prompt, df_filtered, kpi, prod_rank, channel_perf,
                   new_sellers, churn_data, analysis_df>>

\* if raw_df.empty: st.stop()
CheckEmpty ==
    /\ pc = "check" /\ outcome = "running"
    /\ IF IsEmpty(raw_df)
       THEN outcome' = "stopped" /\ pc' = pc
       ELSE outcome' = outcome /\ pc' = "sidebar"
    /\ UNCHANGED <<file, input, error, signals, raw_df, date_range,
                   selected_channels, show_event_only, prompt, df_filtered, kpi,
                   prod_rank, channel_perf, new_sellers, churn_data, analysis_df>>

-----------------------------------------------------------------------------
(* 3. sidebar and prompt widgets *)

Dates(rows) == {DateOf(rows[i].ts) : i \in 1..Len(rows)}

min_date(rows) == CHOOSE d \in Dates(rows) : \A e \in Dates(rows) : DateLE(d, e)
max_date(rows) == CHOOSE d \in Dates(rows) : \A e \in Dates(rows) : DateLE(e, d)

\* raw_df['주문경로'].unique()
all_channels(rows) == {rows[i].channel : i \in 1..Len(rows)}

Sidebar ==
    /\ pc = "sidebar" /\ outcome = "running"
    /\ date_range' = input.date_range
    /\ selected_channels' = input.selected_channels
    /\ show_event_only' =
          IF "event_flag" \in raw_df.columns THEN input.show_event_only ELSE FALSE
    /\ prompt' = input.prompt
    /\ pc' = "date"
    /\ UNCHANGED <<file, input, outcome, error, signals, raw_df, df_filtered, kpi,
                   prod_rank, channel_perf, new_sellers, churn_data, analysis_df>>

-----------------------------------------------------------------------------
(* 4. filtering *)

\* df[mask]: the same columns, the rows the mask selects
WithRows(df, rows) == [columns |-> df.columns, rows |-> rows]

\* a variant of the date step that compares the timestamp itself with the
\* end date at midnight, so that orders later in the end day drop out
DateStep_midnight(df, dr) ==
    IF Len(dr) = 2
    THEN LET keep(r) ==
                 /\ DateLE(dr[1], DateOf(r.ts))
                 /\ TsLE(r.ts, [month |-> dr[2].month, day |-> dr[2].day, hour |-> 0])
         IN WithRows(df, SelectSeq(df.rows, keep))
    ELSE df

\* 1. date range: both ends inclusive, compared on .dt.date
DateStep(df, dr) ==
    IF Len(dr) = 2
    THEN LET keep(r) == DateLE(dr[1], DateOf(r.ts)) /\ DateLE(DateOf(r.ts), dr[2])
         IN WithRows(df, SelectSeq(df.rows, keep))
    ELSE df

\* a variant of the channel step that filters on an empty selection too
ChannelStep_strict(df, selected) ==
    LET keep(r) == r.channel \in selected IN WithRows(df, SelectSeq(df.rows, keep))

\* 2. channel: an empty selection disables the filter
ChannelStep(df, selected) ==
    IF selected # {}
    THEN LET keep(r) == r.channel \in selected IN WithRows(df, SelectSeq(df.rows, keep))
    ELSE df

\* 3. event orders only
EventStep(df, event_only) ==
    IF event_only /\ "event_flag" \in df.columns
    THEN LET keep(r) == r.event_flag = "Y" IN WithRows(df, SelectSeq(df.rows, keep))
    ELSE df

search_cols ==
    {"product", "option_code", "address", "channel", "purpose", "customer_option"}

\* mask |= df_filtered[col].astype(str).str.contains(prompt, case=False)
KeywordMask(r, columns, keyword) ==
    \E col \in search_cols \cap columns :
        str_contains(astype_str(r[col]), keyword)

\* 4. keyword: runs whenever the prompt is a non-empty string
KeywordStep(df, keyword) ==
    IF Truthy(keyword)
    THEN LET keep(r) == KeywordMask(r, df.columns, keyword) IN WithRows(df, SelectSeq(df.rows, keep))
    ELSE df

FilterFrame == <<file, input, error, raw_df, date_range, selected_channels,
                 show_event_only, prompt, kpi, prod_rank, channel_perf,
                 new_sellers, churn_data, analysis_df>>

\* df_filtered = raw_df.copy(), then the date filter
DateFilter ==
    /\ pc = "date" /\ outcome = "running"
    /\ df_filtered' = DateStep(raw_df, date_range)
    /\ pc' = "channel"
    /\ UNCHANGED <<FilterFrame, outcome, signals>>

ChannelFilter ==
    /\ pc = "channel" /\ outcome = "running"
    /\ df_filtered' = ChannelStep(df_filtered, selected_channels)
    /\ pc' = "event"
    /\ UNCHANGED <<FilterFrame, outcome, signals>>

EventFilter ==
    /\ pc = "event" /\ outcome = "running"
    /\ df_filtered' = EventStep(df_filtered, show_event_only)
    /\ pc' = "keyword"
    /\ UNCHANGED <<FilterFrame, outcome, signals>>

\* the message and the stop belong to the `if prompt:` block only
KeywordFilter ==
    /\ pc = "keyword" /\ outcome = "running"
    /\ df_filtered' = KeywordStep(df_filtered, prompt)
    /\ pc' = "kpi"
    /\ IF Truthy(prompt)
       THEN IF IsEmpty(df_filtered')
            THEN signals' = signals \cup {"no_results"} /\ outcome' = "stopped"
            ELSE signals' = signals \cup {"found"} /\ outcome' = outcome
       ELSE signals' = signals /\ outcome' = outcome
    /\ UNCHANGED FilterFrame

-----------------------------------------------------------------------------
(* 5. KPI metrics.  A number that may be fractional is the fraction       *)
(* [num, den]; den = 0 is the floating-point NaN or inf of a division by  *)
(* zero, which numpy returns without raising.                              *)

Ratio(n, d) == [num |-> n, den |-> d]
Zero == Ratio(0, 1)

\* Series.mean()
Mean(s) == Ratio(SumSeq(s), Len(s))

total_sales_of(df) == SumSeq(Column(df, "amount"))

avg_margin_of(df) ==
    IF "margin" \in df.columns THEN Mean(Column(df, "margin")) ELSE Zero

KPI ==
    /\ pc = "kpi" /\ outcome = "running"
    /\ kpi' = [total_sales |-> total_sales_of(df_filtered),
               total_orders |-> Len(df_filtered.rows),
               avg_order_value |->
                   IF Len(df_filtered.rows) > 0
                   THEN Ratio(total_sales_of(df_filtered), Len(df_filtered.rows))
                   ELSE Zero,
               avg_margin |-> avg_margin_of(df_filtered)]
    /\ pc' = "rank"
    /\ UNCHANGED <<file, input, outcome, error, signals, raw_df, date_range,
                   selected_channels, show_event_only, prompt, df_filtered,
                   prod_rank, channel_perf, new_sellers, churn_data, analysis_df>>

-----------------------------------------------------------------------------
(* 6. tab1: product ranking *)

\* groupby(key) keeps no group for a missing key (dropna=True)
GroupKeys(df, key) == {df.rows[i][key] : i \in 1..Len(df.rows)} \ {NaN}

GroupSum(df, key, k, f) ==
    LET in_group(r) == r[key] = k
    IN SumSeq(Column(WithRows(df, SelectSeq(df.rows, in_group)), f))

\* groupby('상품명').agg(총주문수=('주문수량','sum'), 총매출=('실결제 금액','sum')),
\* with the share 총매출 / total_sales * 100 before its formatting
ProductGroups(df, total) ==
    {[product |-> k,
      total_orders |-> GroupSum(df, "product", k, "quantity"),
      total_revenue |-> GroupSum(df, "product", k, "amount"),
      share |-> Ratio(GroupSum(df, "product", k, "amount") * 100, total)] :
        k \in GroupKeys(df, "product")}

\* sort_values('총매출', ascending=False): the order of equal revenues is
\* whatever the sort leaves
RankOrders(groups) ==
    {s \in Orderings(groups) :
        \A i, j \in 1..Len(s) : i < j => s[i].total_revenue >= s[j].total_revenue}

ProductRank ==
    /\ pc = "rank" /\ outcome = "running"
    /\ prod_rank' \in RankOrders(ProductGroups(df_filtered, kpi.total_sales))
    /\ pc' = "channel_perf"
    /\ UNCHANGED <<file, input, outcome, error, signals, raw_df, date_range,
                   selected_channels, show_event_only, prompt, df_filtered, kpi,
                   channel_perf, new_sellers, churn_data, analysis_df>>

-----------------------------------------------------------------------------
(* 6. tab2: channel performance.  The regional and VIP tables that follow *)
(* read columns (광역지역, UID, 주문번호) the datasets here do not vary.   *)

channel_perf_cols == {"amount", "margin"}

\* groupby('주문경로')[['실결제 금액', '마진']].sum(), keyed by channel
ChannelGroups(df) ==
    [k \in GroupKeys(df, "channel") |->
        [amount |-> GroupSum(df, "channel", k, "amount"),
         margin |-> GroupSum(df, "channel", k, "margin")]]

ChannelPerf ==
    /\ pc = "channel_perf" /\ outcome = "running"
    /\ IF channel_perf_cols \subseteq df_filtered.columns
       THEN /\ channel_perf' = ChannelGroups(df_filtered)
            /\ pc' = "seller"
            /\ UNCHANGED <<outcome, error>>
       ELSE \* selecting a column the frame lacks raises KeyError
            /\ outcome' = "raised"
            /\ error' = [type |-> "KeyError",
                         key |-> CHOOSE c \in channel_perf_cols :
                                     c \notin df_filtered.columns]
            /\ UNCHANGED <<channel_perf, pc>>
    /\ UNCHANGED <<file, input, signals, raw_df, date_range, selected_channels,
                   show_event_only, prompt, df_filtered, kpi, prod_rank,
                   new_sellers, churn_data, analysis_df>>

-----------------------------------------------------------------------------
(* 6. tab4: seller analysis *)

\* Series.min() over timestamps
MinTs(S) == CHOOSE t \in S : \A u \in S : TsLE(t, u)

\* a variant that takes each seller's last order instead of the first
first_order_date_last(df, s) ==
    LET stamps == {df.rows[i].ts :
                      i \in {j \in 1..Len(df.rows) : df.rows[j].seller_name = s}}
    IN CHOOSE t \in stamps : \A u \in stamps : TsLE(u, t)

\* df_filtered.groupby('셀러명')['주문일'].min()
first_order_date(df, s) ==
    MinTs({df.rows[i].ts : i \in {j \in 1..Len(df.rows) : df.rows[j].seller_name = s}})

\* 가입월: the period of the first order
JoinMonth(df, s) == PeriodOf(first_order_date(df, s))

\* first_order_date.groupby('가입월')['셀러명'].count(), one row per join
\* month in ascending order, the month then turned into its string
NewSellers(df) ==
    LET sellers == GroupKeys(df, "seller_name")
        months == SortedSeq({JoinMonth(df, s) : s \in sellers})
    IN [i \in 1..Len(months) |->
           [month |-> PeriodStr(months[i]),
            new_inflow |-> Cardinality({s \in sellers : JoinMonth(df, s) = months[i]})]]

\* sorted(df_monthly['주문월'].unique())
Periods(df) == SortedSeq({PeriodOf(df.rows[i].ts) : i \in 1..Len(df.rows)})

\* set(df_monthly[df_monthly['주문월'] == month]['셀러명'])
SellersIn(df, month) ==
    {df.rows[i].seller_name : i \in {j \in 1..Len(df.rows) : PeriodOf(df.rows[j].ts) = month}}

\* a variant that counts the sellers new in the current month instead
ChurnEntry_reversed(df, prev_month, curr_month) ==
    [month |-> PeriodStr(curr_month),
     churn |-> Cardinality(SellersIn(df, curr_month) \ SellersIn(df, prev_month)) * (-1)]

\* churned = len(prev_sellers - curr_sellers), appended as churned * -1
ChurnEntry(df, prev_month, curr_month) ==
    [month |-> PeriodStr(curr_month),
     churn |-> Cardinality(SellersIn(df, prev_month) \ SellersIn(df, curr_month)) * (-1)]

\* for i in range(1, len(periods)): ... churn_data.append(...)
RECURSIVE ChurnLoop(_, _, _)
ChurnLoop(df, periods, i) ==
    IF i > Len(periods) THEN <<>>
    ELSE <<ChurnEntry(df, periods[i - 1], periods[i])>> \o ChurnLoop(df, periods, i + 1)

ChurnData(df) ==
    LET periods == Periods(df)
    IN IF Len(periods) > 1 THEN ChurnLoop(df, periods, 2) ELSE <<>>

\* rows in ascending order of their month string
RECURSIVE SortByMonth(_)
SortByMonth(S) ==
    IF S = {} THEN <<>>
    ELSE LET m == CHOOSE r \in S : \A q \in S : ~StrLess(q.month, r.month)
         IN <<m>> \o SortByMonth(S \ {m})

Lookup(rows, month, f) ==
    IF \E i \in 1..Len(rows) : rows[i].month = month
    THEN rows[CHOOSE i \in 1..Len(rows) : rows[i].month = month][f]
    ELSE 0

\* pd.merge(new_sellers, churn_df, on='월', how='outer').fillna(0)
OuterMerge(new, churn) ==
    LET months == {new[i].month : i \in 1..Len(new)} \cup
                  {churn[i].month : i \in 1..Len(churn)}
    IN SortByMonth({[month |-> m,
                     new_inflow |-> Lookup(new, m, "new_inflow"),
                     churn |-> Lookup(churn, m, "churn")] : m \in months})

\* pd.DataFrame(churn_data): a frame without columns when the list is empty
ChurnFrame(churn) ==
    IF churn = <<>> THEN EmptyFrame
    ELSE [columns |-> {"month", "churn"}, rows |-> churn]

NewSellersFrame(new) == [columns |-> {"month", "new_inflow"}, rows |-> new]

Analysis(new, churn) ==
    IF ~IsEmpty(NewSellersFrame(new))
    THEN IF ~IsEmpty(ChurnFrame(churn))
         THEN [columns |-> {"month", "new_inflow", "churn"},
               rows |-> OuterMerge(new, churn)]
         ELSE NewSellersFrame(new)
    ELSE ChurnFrame(churn)

\* the view the seller analysis reads
SellerView == df_filtered

\* lines 341-404: without the seller column only a warning is shown
SellerFlow ==
    /\ pc = "seller" /\ outcome = "running"
    /\ IF "seller_name" \notin df_filtered.columns
       THEN /\ signals' = signals \cup {"no_seller_column"}
            /\ outcome' = "done"
            /\ pc' = "end"
            /\ UNCHANGED <<new_sellers, churn_data, analysis_df>>
       ELSE /\ new_sellers' = NewSellers(SellerView)
            /\ churn_data' = ChurnData(SellerView)
            /\ analysis_df' = Analysis(NewSellers(SellerView), ChurnData(SellerView))
            /\ pc' = "chart"
            /\ UNCHANGED <<signals, outcome>>
    /\ UNCHANGED <<file, input, error, raw_df, date_range, selected_channels,
                   show_event_only, prompt, df_filtered, kpi, prod_rank,
                   channel_perf>>

chart_cols == <<"new_inflow", "churn">>

\* lines 406-435: the inflow/churn bars read both series of analysis_df
SellerChart ==
    /\ pc = "chart" /\ outcome = "running"
    /\ pc' = "end"
    /\ IF ~IsEmpty(analysis_df)
       THEN \* analysis_df = analysis_df.sort_values('월'), then the two bars
            /\ analysis_df' = [analysis_df EXCEPT
                                  !.rows = SortByMonth(Range(analysis_df.rows))]
            /\ IF \A i \in 1..Len(chart_cols) : chart_cols[i] \in analysis_df.columns
               THEN outcome' = "done" /\ error' = error
               ELSE \* the first series the frame lacks raises KeyError
                    /\ outcome' = "raised"
                    /\ error' = [type |-> "KeyError",
                                 key |-> chart_cols[CHOOSE i \in 1..Len(chart_cols) :
                                     /\ chart_cols[i] \notin analysis_df.columns
                                     /\ \A j \in 1..(i - 1) :
                                           chart_cols[j] \in analysis_df.columns]]
       ELSE /\ outcome' = "done"
            /\ UNCHANGED <<error, analysis_df>>
    /\ UNCHANGED <<file, input, signals, raw_df, date_range, selected_channels,
                   show_event_only, prompt, df_filtered, kpi, prod_rank,
                   channel_perf, new_sellers, churn_data>>

-----------------------------------------------------------------------------
(* The enumerated files and widget states *)

AllColumns ==
    BaseColumns \cup {"event_flag", "unit_sale_price", "unit_supply_price", "seller_name"}

FileRow(ts, channel, event_flag, product, quantity, amount, seller_name) ==
    [ts |-> ts, channel |-> channel, event_flag |-> event_flag,
     product |-> product, quantity |-> quantity,
     unit_sale_price |-> 3, unit_supply_price |-> 2,
     amount |-> amount, seller_name |-> seller_name]

Stamp(m, d, h) == [month |-> m, day |-> d, hour |-> h]

GoodFile(columns, rows) ==
    [exists |-> TRUE, parseable |-> TRUE, columns |-> columns, rows |-> rows]
MissingFile ==
    [exists |-> FALSE, parseable |-> FALSE, columns |-> {}, rows |-> <<>>]
CorruptFile ==
    [exists |-> TRUE, parseable |-> FALSE, columns |-> {}, rows |-> <<>>]

\* the widgets before any of them was created
NoInput ==
    [date_range |-> <<>>, selected_channels |-> {}, show_event_only |-> FALSE,
     prompt |-> <<>>]

\* a file that cannot be loaded, or that holds the header line only
FailureFiles == {MissingFile, CorruptFile, GoodFile(AllColumns, <<>>)}

SubsetsUpTo(S, n) == {T \in SUBSET S : Cardinality(T) <= n}

CalendarDays == {1, 2}
Calendar == {[month |-> m, day |-> d] : m \in 1..NumMonths, d \in CalendarDays}

\* st.date_input(min_value=min_date, max_value=max_date) in range mode:
\* nothing picked, one day picked, or a start and an end
DateChoices(rows) ==
    {d \in Calendar : DateLE(min_date(rows), d) /\ DateLE(d, max_date(rows))}
DateRanges(days) ==
    {<<>>} \cup {<<d>> : d \in days}
           \cup {p \in days \X days : DateLE(p[1], p[2])}

\* the defaults of the widgets: the whole period, every channel
DefaultInput(rows) ==
    [date_range |-> <<min_date(rows), max_date(rows)>>,
     selected_channels |-> all_channels(rows),
     show_event_only |-> FALSE, prompt |-> <<>>]

\* filter family: rows differ in day, time of day, channel and event flag
FilterStamps == {Stamp(1, 1, 9), Stamp(1, 2, 9), Stamp(2, 1, 0)}
FilterChannels == {<<"K", "a">>, <<"b", " ", "c">>}
FilterPrompts == {<<>>, <<" ">>, <<"k">>, <<"B">>}
FilterRows ==
    {FileRow(ts, ch, ev, <<"G">>, 1, 1, <<"A">>) :
        ts \in FilterStamps, ch \in FilterChannels, ev \in {"Y", "N"}}
FilterFiles ==
    {GoodFile(AllColumns, SetToSeq(S)) : S \in SubsetsUpTo(FilterRows, MaxRows) \ {{}}}
FilterInputs(f) ==
    [date_range : DateRanges(DateChoices(f.rows)),
     selected_channels : SUBSET all_channels(f.rows),
     show_event_only : BOOLEAN,
     prompt : FilterPrompts]
\* aggregation family: rows differ in product (possibly missing), quantity
\* and amount; the file may lack a price column
AggRows ==
    {FileRow(Stamp(1, 1, 9), <<"K", "a">>, "N", p, q, a, <<"A">>) :
        p \in {<<"G">>, <<"a">>, NaN}, q \in {1, 2}, a \in {1, 2}}
AggColumns ==
    {AllColumns, AllColumns \ {"unit_supply_price"}, AllColumns \ {"unit_sale_price"}}
AggFiles ==
    {GoodFile(c, rows) :
        c \in AggColumns,
        rows \in UNION {[1..n -> AggRows] : n \in 1..MaxAggRows}}
AggInputs(f) ==
    {DefaultInput(f.rows), [DefaultInput(f.rows) EXCEPT !.prompt = <<"g">>]}
\* seller family: which seller has an order in which month
Sellers == {<<"A">>, <<"B">>, <<"C">>}
SellerRows ==
    {FileRow(Stamp(m, 1, 0), <<"K", "a">>, "N", <<"G">>, 1, 1, s) :
        m \in 1..NumMonths, s \in Sellers}
SellerFiles ==
    {GoodFile(c, SetToSeq(S)) :
        c \in {AllColumns},
        S \in SubsetsUpTo(SellerRows, MaxSellerRows) \ {{}}}
SellerInputs(f) ==
    {[DefaultInput(f.rows) EXCEPT !.date_range = dr] :
        dr \in DateRanges({d \in DateChoices(f.rows) : d.day = 1})}
-----------------------------------------------------------------------------
(* Specifications *)

\* the pass has not started: nothing is loaded, shown or computed
Fresh ==
    /\ pc = "load"
    /\ outcome = "running"
    /\ error = NoError
    /\ signals = {}
    /\ raw_df = EmptyFrame
    /\ date_range = <<>>
    /\ selected_channels = {}
    /\ show_event_only = FALSE
    /\ prompt = <<>>
    /\ df_filtered = EmptyFrame
    /\ kpi = [total_sales |-> 0, total_orders |-> 0, avg_order_value |-> Zero,
              avg_margin |-> Zero]
    /\ prod_rank = <<>>
    /\ channel_perf = <<>>
    /\ new_sellers = <<>>
    /\ churn_data = <<>>
    /\ analysis_df = EmptyFrame

Scenario(f, i) == file = f /\ input = i

Init ==
    /\ \/ \E f \in FailureFiles : Scenario(f, NoInput)
       \/ \E f \in FilterFiles : \E i \in FilterInputs(f) : Scenario(f, i)
    /\ Fresh

InitAgg ==
    /\ \/ \E f \in FailureFiles : Scenario(f, NoInput)
       \/ \E f \in AggFiles : \E i \in AggInputs(f) : Scenario(f, i)
    /\ Fresh

InitSeller ==
    /\ \/ \E f \in FailureFiles : Scenario(f, NoInput)
       \/ \E f \in SellerFiles : \E i \in SellerInputs(f) : Scenario(f, i)
    /\ Fresh

Next ==
    \/ LoadData
    \/ CheckEmpty
    \/ Sidebar
    \/ DateFilter
    \/ ChannelFilter
    \/ EventFilter
    \/ KeywordFilter
    \/ KPI
    \/ ProductRank
    \/ ChannelPerf
    \/ SellerFlow
    \/ SellerChart

Spec == Init /\ [][Next]_vars
SpecAgg == InitAgg /\ [][Next]_vars
SpecSeller == InitSeller /\ [][Next]_vars

-----------------------------------------------------------------------------
(* Properties *)

ViewRows == Range(df_filtered.rows)
ViewPeriods == {r.ts.month : r \in ViewRows}
ViewSellers == {r.seller_name : r \in ViewRows}
ActiveIn(p) == {r.seller_name : r \in {q \in ViewRows : q.ts.month = p}}
AdjacentPeriods(p, c) ==
    /\ p \in ViewPeriods /\ c \in ViewPeriods /\ p < c
    /\ ~\E q \in ViewPeriods : p < q /\ q < c

\* the seller analysis has computed its two series
SellerFlowRan == pc \in {"chart", "end"} /\ "seller_name" \in df_filtered.columns

\* the four filter steps have run
AfterFilters == {"kpi", "rank", "channel_perf", "seller", "chart", "end"}

\* C1: for every pair (P, C) of adjacent periods of the view the churn series
\* holds exactly one entry for C, whose value is -|active(P) \ active(C)|;
\* there is no other entry, so the first period has none.
C1_ChurnPerAdjacentPair ==
    SellerFlowRan =>
        /\ \A p \in ViewPeriods : \A c \in ViewPeriods :
              AdjacentPeriods(p, c) =>
                  \E i \in 1..Len(churn_data) :
                      /\ churn_data[i].month = PeriodStr(c)
                      /\ churn_data[i].churn = 0 - Cardinality(ActiveIn(p) \ ActiveIn(c))
                      /\ \A j \in 1..Len(churn_data) :
                            churn_data[j].month = PeriodStr(c) => j = i
        /\ \A i \in 1..Len(churn_data) :
              \E p \in ViewPeriods : \E c \in ViewPeriods :
                  AdjacentPeriods(p, c) /\ churn_data[i].month = PeriodStr(c)

\* C1 witness: the spec's scenario, active sets {A,B}, {B,C}, {C} over three
\* months, with churn -1 for the second month and -1 for the third.
C1_Witness ==
    /\ SellerFlowRan
    /\ ViewPeriods = {1, 2, 3}
    /\ ActiveIn(1) = {<<"A">>, <<"B">>}
    /\ ActiveIn(2) = {<<"B">>, <<"C">>}
    /\ ActiveIn(3) = {<<"C">>}
    /\ churn_data = <<[month |-> PeriodStr(2), churn |-> -1],
                      [month |-> PeriodStr(3), churn |-> -1]>>

\* C2 as claimed: with fewer than two periods and at least one seller the
\* seller analysis ends without error, with a new-seller series and an empty
\* churn series; with no seller both series are empty.
C2_SinglePeriodCompletes ==
    (pc = "end" /\ "seller_name" \in df_filtered.columns) =>
        /\ (Cardinality(ViewPeriods) < 2 /\ Cardinality(ViewSellers) >= 1) =>
              (outcome = "done" /\ new_sellers # <<>> /\ churn_data = <<>>)
        /\ Cardinality(ViewSellers) = 0 => (new_sellers = <<>> /\ churn_data = <<>>)

IsBlank(s) == \A i \in 1..Len(s) : s[i] = " "

BeforeKeyword ==
    EventStep(ChannelStep(DateStep(raw_df, date_range), selected_channels),
              show_event_only)

\* C3 as claimed: with an empty or whitespace-only keyword the keyword step
\* leaves the view as it was, emits no keyword result signal and does not stop.
C3_BlankKeywordNoOp ==
    (pc = "kpi" /\ IsBlank(prompt)) =>
        /\ df_filtered = BeforeKeyword
        /\ signals \cap {"no_results", "found"} = {}
        /\ outcome = "running"

\* C4 as claimed: whenever the fully filtered view has no rows the "no
\* results" signal was emitted, and it is not the signal of a failed load.
C4_EmptyViewSignalled ==
    (pc \in AfterFilters /\ df_filtered.rows = <<>>) =>
        ("no_results" \in signals /\ "file_not_found" \notin signals)

\* C5 as claimed: without the margin column the KPI step yields the 0
\* sentinel and no later aggregate aborts the pass for the missing column.
C5_NoMarginNoAbort ==
    (pc \in AfterFilters \ {"kpi"} /\ "margin" \notin raw_df.columns) =>
        /\ kpi.avg_margin = Zero
        /\ ~(outcome = "raised" /\ error.key = "margin")

\* C6 as claimed: for a non-empty view the revenues of the product ranking
\* sum to the KPI total sales, missing product names included.
C6_RankSumsToTotal ==
    (pc \in AfterFilters \ {"kpi", "rank"} /\ df_filtered.rows # <<>>) =>
        SumSeq([i \in 1..Len(prod_rank) |-> prod_rank[i].total_revenue])
            = kpi.total_sales

LoadActed == pc # "load" \/ outcome # "running"

\* C7 as claimed: a file that is not found, or found but not parseable, makes
\* load return the empty dataset without raising, and the pass stops before
\* any filter or aggregate step.
C7_LoadFailureStops ==
    (LoadActed /\ (~file.exists \/ ~file.parseable)) =>
        /\ outcome # "raised"
        /\ IsEmpty(raw_df)
        /\ pc = "check"

DayNumber(d) == d.month * 100 + d.day

\* C8: right after the date step the view holds exactly the raw rows whose
\* order day lies in [start_date, end_date], both ends included and the time
\* of day ignored; a range that is not two dates keeps every row.
C8_DateRangeInclusive ==
    pc = "channel" =>
        LET in_range(r) ==
                Len(date_range) = 2 =>
                    /\ DayNumber(date_range[1]) <= DayNumber(r.ts)
                    /\ DayNumber(r.ts) <= DayNumber(date_range[2])
        IN df_filtered.rows = SelectSeq(raw_df.rows, in_range)

\* C8 witness: a row dated on end_date, later than midnight, is kept while
\* another row is dropped.
C8_Witness ==
    /\ pc = "channel"
    /\ Len(date_range) = 2
    /\ \E r \in ViewRows : DateOf(r.ts) = date_range[2] /\ r.ts.hour > 0
    /\ Len(df_filtered.rows) < Len(raw_df.rows)

\* the seller's earliest order in the view falls in period p
EarliestIn(s, p) ==
    \E r \in ViewRows :
        /\ r.seller_name = s /\ r.ts.month = p
        /\ \A q \in ViewRows : q.seller_name = s => TsLE(r.ts, q.ts)

Reported(p) ==
    SumSeq([i \in 1..Len(new_sellers) |->
               IF new_sellers[i].month = PeriodStr(p)
               THEN new_sellers[i].new_inflow ELSE 0])

\* C9: the new-seller count of a period is the number of sellers whose
\* earliest order in the view falls in it; the counts sum to the number of
\* distinct sellers of the view.
C9_NewSellersByFirstOrder ==
    SellerFlowRan =>
        /\ \A p \in 1..12 :
              Reported(p) = Cardinality({s \in ViewSellers : EarliestIn(s, p)})
        /\ SumSeq([i \in 1..Len(new_sellers) |-> new_sellers[i].new_inflow])
              = Cardinality(ViewSellers)

\* C9 witness: a seller with orders in two periods of a view narrower than
\* the raw dataset, and new sellers in two periods.
C9_Witness ==
    /\ SellerFlowRan
    /\ Len(new_sellers) >= 2
    /\ Len(df_filtered.rows) < Len(raw_df.rows)
    /\ \E r \in ViewRows : \E q \in ViewRows :
          r.seller_name = q.seller_name /\ r.ts.month # q.ts.month

Fold(s) == [i \in 1..Len(s) |-> lower(s[i])]

Occurs(text, kw) ==
    \E i \in 1..(Len(text) + 1) :
        /\ i + Len(kw) - 1 <= Len(text)
        /\ Fold(SubSeq(text, i, i + Len(kw) - 1)) = Fold(kw)

\* the row satisfies every active criterion
SatisfiesAll(r) ==
    /\ Len(date_range) = 2 =>
          /\ DayNumber(date_range[1]) <= DayNumber(r.ts)
          /\ DayNumber(r.ts) <= DayNumber(date_range[2])
    /\ selected_channels # {} => r.channel \in selected_channels
    /\ show_event_only => r.event_flag = "Y"
    /\ prompt # <<>> =>
          \/ Occurs(astype_str(r.product), prompt)
          \/ Occurs(astype_str(r.channel), prompt)

StepNames == {"date", "channel", "event", "keyword"}

ApplyStep(name, df) ==
    CASE name = "date" -> DateStep(df, date_range)
      [] name = "channel" -> ChannelStep(df, selected_channels)
      [] name = "event" -> EventStep(df, show_event_only)
      [] name = "keyword" -> KeywordStep(df, prompt)

RECURSIVE ApplyOrder(_, _)
ApplyOrder(order, df) ==
    IF order = <<>> THEN df ELSE ApplyOrder(Tail(order), ApplyStep(Head(order), df))

\* C10: right after the four steps the view is exactly the raw rows that satisfy
\* every active criterion (an empty channel set being no criterion), so it
\* has no more rows than the raw dataset; any order of the steps gives the
\* same view; the raw dataset is still what load returned.
C10_ViewIsIntersection ==
    pc = "kpi" =>
        /\ df_filtered.rows = SelectSeq(raw_df.rows, SatisfiesAll)
        /\ df_filtered.columns = raw_df.columns
        /\ Len(df_filtered.rows) <= Len(raw_df.rows)
        /\ \A order \in Orderings(StepNames) : ApplyOrder(order, raw_df) = df_filtered
        /\ raw_df = LoadFrame(file)

\* C10 witness: all four criteria are active and keep some rows, not all.
C10_Witness ==
    /\ pc = "kpi"
    /\ Len(date_range) = 2 /\ selected_channels # {} /\ show_event_only
    /\ prompt # <<>>
    /\ df_filtered.rows # <<>>
    /\ Len(df_filtered.rows) < Len(raw_df.rows)

====
